---- MODULE Spec2Model ----
(***************************************************************************)
(* The job queue of the media processor: QueueManager (gui/queue_manager), *)
(* its dispatch loop, the worker threads it starts, and the stage calls of *)
(* MediaProcessor (core/processor) that a worker makes.                    *)
(*                                                                         *)
(* Jobs are numbered in creation order (the number stands for the uuid and *)
(* for created_at).  Progress is kept in hundredths of a percent, so that  *)
(* 77.5 is 7750 and the rescaling of the processor stays in the integers.  *)
(* A section of code under queue_lock is one step; every write of a field  *)
(* of an item, which the code makes without the lock, is a step of its own.*)
(***************************************************************************)
EXTENDS Integers, Sequences, FiniteSets, Bags, TLC

\* ---- bounds of the model ----
\* the queue runs: several local files, stages that report nothing
MaxJobs == 3
MaxUnits == 3
\* the stage runs: one job of either type, stages that report and yield several files
StageUnits == 2
MaxReports == 2
MaxFiles == 2
\* the burst runs: several local files and no clearing or stopping
BurstUnits == 4

\* the observed runs: jobs of either type and an observer that keeps a snapshot
ViewJobs == 1
ViewUnits == 2

\* the fair runs: jobs of either type and threads that are scheduled fairly
FairJobs == 2
FairUnits == 2

\* the long runs: one local file whose threads run one after the other
HistUnits == 52

\* the runs with the two calls of update_ui
RefreshJobs == 1
RefreshUnits == 2

\* the runs of the shutdown: processes started by each wrapper
MaxProcs == 2

\* the runs with the lock: who holds queue_lock is part of the state
LockJobs == 2
LockUnits == 2

\* the runs with a settings dialog: one job, and the policy changes at any time
PolicyUnits == 2
PolicyFiles == 2

\* ---- program constants ----
max_concurrent == 2
SnapshotTail == 50

Jobs == 1 .. MaxJobs
NoItem == 0

\* stage-local progress values a tool may report (0, 50 and 100 percent)
Reports == {0, 5000, 10000}

ItemTypes == {"url", "file"}

\* messages of the exceptions process_url raises before or during Acquire
MsgNotConfigured == "yt-dlp is not configured or not working. Please check settings."
MsgUnsupported == "URL not supported by yt-dlp"
MsgDownloadFailed == "Download failed with return code"
MsgNoFiles == "No files were downloaded"
MsgFileNotFound == "File not found"

VARIABLES
    nextId,             \* number of QueueItems constructed so far
    itype,              \* item.type
    status,             \* item.status
    progress,           \* item.progress
    error_message,      \* item.error_message
    output_file,        \* item.output_file: "", "original" or "converted"
    queue,              \* self.queue
    processing_items,   \* self.processing_items, keys in insertion order
    completed_items,    \* self.completed_items
    error_items,        \* self.error_items
    running,            \* self.running
    dpc,                \* position of the dispatch loop
    ditem,              \* the local variable item of process_queue
    units,              \* the live threads inside _process_item, as a bag
    yt_dlp_available,   \* processor.yt_dlp_available
    auto_process,       \* config: processing / auto_process
    queue_lock,         \* self.queue_lock: who holds it (dispatch loop or a worker)
    upc,                \* MainWindow.update_ui: where the GUI thread is in it
    active_count,       \* MainWindow.update_ui: the count shown in the status bar
    active_processes,   \* MediaDownloader / FFMPEGWrapper: self.active_processes
    tpc,                \* where the thread that started each process is
    shutdown,           \* MediaProcessor.cleanup: where the GUI thread is in it
    limits,             \* the bounds of the run: jobs, threads, reports, files, types
    view,               \* the list get_queue_items last returned to the observer
    started,            \* history: threads started so far, per job
    admitted,           \* history: jobs in the order they were admitted
    discarded           \* history: jobs removed by clear_completed / clear_all

vars == <<nextId, itype, status, progress, error_message, output_file, queue,
          processing_items, completed_items, error_items, running, dpc, ditem,
          units, yt_dlp_available, auto_process, queue_lock, upc, active_count,
          active_processes, tpc, shutdown, limits, view, started, admitted,
          discarded>>

itemVars == <<status, progress, error_message, output_file>>
collVars == <<queue, processing_items, completed_items, error_items>>
loopVars == <<dpc, ditem>>
procVars == <<active_processes, tpc, shutdown>>
envVars == <<yt_dlp_available, auto_process, queue_lock, upc, active_count, procVars,
             limits>>
histVars == <<started, admitted, discarded>>

\* ---- helpers on sequences ----
Range(s) == {s[k] : k \in DOMAIN s}

Count(s, x) == Cardinality({k \in DOMAIN s : s[k] = x})

Remove(s, x) == SelectSeq(s, LAMBDA y : y # x)

Last(s, n) == IF Len(s) <= n THEN s ELSE SubSeq(s, Len(s) - n + 1, Len(s))

Min(a, b) == IF a <= b THEN a ELSE b

\* ---- QueueItem ----
live_item(j) ==
    [id |-> j, type |-> itype[j], status |-> status[j], progress |-> progress[j],
     error_message |-> error_message[j], output_file |-> output_file[j],
     created_at |-> j, ref |-> j]

\* lines 27-40: a new dict that holds the values the fields have at the call.
\* The values are strings, floats and datetimes, which cannot be changed in
\* place, and the dict holds no reference to the item.
to_dict(j) ==
    [id |-> j, type |-> itype[j], status |-> status[j], progress |-> progress[j],
     error_message |-> error_message[j], output_file |-> output_file[j],
     created_at |-> j]

\* ---- MediaProcessor: progress rescaling ----
download_progress_raw(p) == p

download_progress(p) == (p * 7) \div 10

base_progress(i, n) == 7000 + (i * 3000) \div n

process_progress_flat(i, n, p) == Min(7000 + (p * 30) \div 100, 10000)

process_progress(i, n, p) == Min(base_progress(i, n) + ((p * 30) \div n) \div 100, 10000)

\* ---- a thread running _process_item ----
\* (policy is history: the value auto_process has when the stage call begins)
NewUnit(j) ==
    [item |-> j, pc |-> "start", n |-> 0, i |-> 0, left |-> 0,
     processed |-> <<>>, outcome |-> <<>>, msg |-> "", policy |-> FALSE]

Live == BagToSet(units)

Replace(r, r2) == units' = (units (-) SetToBag({r})) (+) SetToBag({r2})

Finish(r) == units' = units (-) SetToBag({r})

UnitsOn(j) == {r \in Live : r.item = j}

\* the number of live threads among the records in S
CountUnits(S) == BagCardinality([r \in S |-> units[r]])

\* line 131: started_at is set once a thread on the job has passed the start
\* of _process_item (every started thread that is not at its start has)
started_at_set(j) == started[j] > CountUnits({r \in UnitsOn(j) : r.pc = "start"})

\* lines 157 and 169: completed_at is set once a thread on the job has written
\* output_file or error_message, after which it only has the move left
completed_at_set(j) ==
    started[j] > CountUnits({r \in UnitsOn(j) :
                                r.pc \notin {"move_completed", "move_error"}})

RECURSIVE SumOver(_, _)
SumOver(f, S) ==
    IF S = {} THEN 0
    ELSE LET x == CHOOSE y \in S : TRUE IN f[x] + SumOver(f, S \ {x})

QueueLimits == [jobs |-> MaxJobs, units |-> MaxUnits, live |-> MaxUnits,
                reports |-> 0, files |-> 1, types |-> {"file"},
                policies |-> {TRUE}]
StageLimits == [jobs |-> 1, units |-> StageUnits, live |-> StageUnits,
                reports |-> MaxReports, files |-> MaxFiles, types |-> ItemTypes,
                policies |-> BOOLEAN]
BurstLimits == [jobs |-> MaxJobs, units |-> BurstUnits, live |-> BurstUnits,
                reports |-> 0, files |-> 1, types |-> {"file"},
                policies |-> {TRUE}]

ViewLimits == [jobs |-> ViewJobs, units |-> ViewUnits, live |-> ViewUnits,
               reports |-> 1, files |-> 1, types |-> ItemTypes,
               policies |-> {TRUE}]

FairLimits == [jobs |-> FairJobs, units |-> FairUnits, live |-> FairUnits,
               reports |-> 1, files |-> 1, types |-> ItemTypes,
               policies |-> {TRUE}]

HistoryLimits == [jobs |-> 1, units |-> HistUnits, live |-> 1, reports |-> 0,
                  files |-> 1, types |-> {"file"}, policies |-> {TRUE}]

RefreshLimits == [jobs |-> RefreshJobs, units |-> RefreshUnits,
                  live |-> RefreshUnits, reports |-> 1, files |-> 1,
                  types |-> ItemTypes, policies |-> {TRUE}]

\* the two wrappers of external processes, and the processes of a run
Wrappers == {"downloader", "ffmpeg"}

Pids == 1 .. MaxProcs

\* MediaProcessor.cleanup has not been called
NotStarted ==
    [pc |-> "idle", wrapper |-> "downloader", todo |-> {}, pid |-> 0,
     raised |-> FALSE, at_start |-> [w \in Wrappers |-> {}]]

\* the lock is free
Unlocked == [by |-> "none", unit |-> NewUnit(NoItem), done |-> 0]

\* the threads on job j that have returned from _process_item
Finished(j) == started[j] - CountUnits(UnitsOn(j))

LockLimits == [jobs |-> LockJobs, units |-> LockUnits, live |-> LockUnits,
               reports |-> 1, files |-> 1, types |-> ItemTypes,
               policies |-> {TRUE}]

PolicyLimits == [jobs |-> 1, units |-> PolicyUnits, live |-> PolicyUnits,
                 reports |-> 1, files |-> PolicyFiles, types |-> ItemTypes,
                 policies |-> BOOLEAN]

InitWith(l, yt) ==
    /\ nextId = 0
    /\ itype = [j \in Jobs |-> "url"]
    /\ status = [j \in Jobs |-> "queued"]
    /\ progress = [j \in Jobs |-> 0]
    /\ error_message = [j \in Jobs |-> ""]
    /\ output_file = [j \in Jobs |-> ""]
    /\ queue = <<>>
    /\ processing_items = <<>>
    /\ completed_items = <<>>
    /\ error_items = <<>>
    /\ running = TRUE
    /\ dpc = "while"
    /\ ditem = NoItem
    /\ units = EmptyBag
    /\ yt_dlp_available \in yt
    /\ auto_process \in l.policies
    /\ queue_lock = Unlocked
    /\ upc = "idle"
    /\ active_count = 0
    /\ active_processes = [w \in Wrappers |-> {}]
    /\ tpc = [w \in Wrappers |-> [p \in Pids |-> "none"]]
    /\ shutdown = NotStarted
    /\ limits = l
    /\ view = <<>>
    /\ started = [j \in Jobs |-> 0]
    /\ admitted = <<>>
    /\ discarded = {}

Init == InitWith(QueueLimits, {TRUE}) \/ InitWith(StageLimits, BOOLEAN)

InitBurst == InitWith(BurstLimits, {TRUE})

\* ---- public operations of QueueManager ----
add_item_front(t) ==
    /\ t \in limits.types
    /\ nextId < limits.jobs
    /\ nextId' = nextId + 1
    /\ itype' = [itype EXCEPT ![nextId + 1] = t]
    /\ queue' = <<nextId + 1>> \o queue
    /\ UNCHANGED <<itemVars, processing_items, completed_items, error_items,
                   running, loopVars, units, envVars, view, histVars>>

\* lines 56-63, with QueueItem.__init__ (lines 14-25): the fields of an item
\* that was not constructed yet hold what the constructor will write
add_item(t) ==
    /\ t \in limits.types
    /\ nextId < limits.jobs
    /\ nextId' = nextId + 1
    /\ itype' = [itype EXCEPT ![nextId + 1] = t]
    /\ queue' = Append(queue, nextId + 1)
    /\ UNCHANGED <<itemVars, processing_items, completed_items, error_items,
                   running, loopVars, units, envVars, view, histVars>>

InsertLast(s, r) == Append(s, r)

\* insertion sort by created_at descending; equal keys keep their order
RECURSIVE InsertDesc(_, _)
InsertDesc(s, r) ==
    IF s = <<>> THEN <<r>>
    ELSE IF Head(s).created_at >= r.created_at
         THEN <<Head(s)>> \o InsertDesc(Tail(s), r)
         ELSE <<r>> \o s

RECURSIVE SortDesc(_)
SortDesc(s) ==
    IF s = <<>> THEN <<>>
    ELSE InsertDesc(SortDesc(SubSeq(s, 1, Len(s) - 1)), s[Len(s)])

\* lines 67-84: the rows collected under the lock, before they are sorted
snapshot_items ==
    LET all == queue \o processing_items \o Last(completed_items, SnapshotTail)
                     \o Last(error_items, SnapshotTail)
    IN  [k \in DOMAIN all |-> to_dict(all[k])]

\* lines 65-86
get_queue_items == SortDesc(snapshot_items)

clear_finished ==
    /\ completed_items' = <<>>
    /\ error_items' = <<>>
    /\ discarded' = discarded \cup Range(completed_items) \cup Range(error_items)
    /\ UNCHANGED <<nextId, itype, itemVars, queue, processing_items, running,
                   loopVars, units, envVars, view, started, admitted>>

\* lines 88-91
clear_completed ==
    /\ completed_items' = <<>>
    /\ discarded' = discarded \cup Range(completed_items)
    /\ UNCHANGED <<nextId, itype, itemVars, queue, processing_items, error_items,
                   running, loopVars, units, envVars, view, started, admitted>>

ClearedInFlightToo(items) == <<>>

\* line 99: the in-flight set is not touched
ClearedInFlight(items) == items

\* lines 93-99
clear_all ==
    /\ queue' = <<>>
    /\ completed_items' = <<>>
    /\ error_items' = <<>>
    /\ processing_items' = ClearedInFlight(processing_items)
    /\ discarded' = discarded \cup Range(queue) \cup Range(completed_items)
                              \cup Range(error_items)
    /\ UNCHANGED <<nextId, itype, itemVars, running, loopVars, units, envVars, view,
                   started, admitted>>

\* main_window line 223: the observer calls get_queue_items and walks the list
\* it got.  (The second call of line 232 only counts rows.)
update_ui ==
    /\ view' = get_queue_items
    /\ UNCHANGED <<nextId, itype, itemVars, collVars, running, loopVars, units,
                   envVars, histVars>>

\* settings_dialog line 286: apply_settings sets processing / auto_process
apply_settings ==
    /\ auto_process' \in BOOLEAN
    /\ UNCHANGED <<nextId, itype, itemVars, collVars, running, loopVars, units,
                   yt_dlp_available, queue_lock, upc, active_count, procVars,
                   limits, view, histVars>>

stop_and_kill ==
    /\ running' = FALSE
    /\ units' = EmptyBag
    /\ UNCHANGED <<nextId, itype, itemVars, collVars, loopVars, envVars, view,
                   histVars>>

\* lines 177-179
stop ==
    /\ running' = FALSE
    /\ UNCHANGED <<nextId, itype, itemVars, collVars, loopVars, units, envVars, view,
                   histVars>>

\* ---- process_queue: the dispatch loop ----
\* line 103 (after the sleep of line 121): while self.running.  The bounds on
\* the threads of a run, and on those alive at once, stop the loop here, before
\* an iteration that may start one, so that a job that was popped always gets
\* its thread.
LoopTest ==
    /\ dpc = "while"
    /\ running => /\ SumOver(started, Jobs) < limits.units
                  /\ BagCardinality(units) < limits.live
    /\ dpc' = IF running THEN "check" ELSE "exit"
    /\ UNCHANGED <<nextId, itype, itemVars, collVars, running, ditem, units,
                   envVars, view, histVars>>

CanStartLoose(n) == n <= max_concurrent

CanStart(n) == n < max_concurrent

\* line 106: the size is read without the lock
LoopCheck ==
    /\ dpc = "check"
    /\ dpc' = IF CanStart(Len(processing_items)) THEN "pop" ELSE "while"
    /\ UNCHANGED <<nextId, itype, itemVars, collVars, running, ditem, units,
                   envVars, view, histVars>>

PopLast(q) == Len(q)

\* line 109: popleft takes the head
PopIndex(q) == 1

\* lines 107-110, under the lock
LoopPop ==
    /\ dpc = "pop"
    /\ dpc' = "spawn"
    /\ IF queue # <<>>
       THEN LET k == PopIndex(queue)
                j == queue[k]
            IN  /\ ditem' = j
                /\ queue' = SubSeq(queue, 1, k - 1) \o SubSeq(queue, k + 1, Len(queue))
                /\ processing_items' = Append(processing_items, j)
                /\ admitted' = Append(admitted, j)
       ELSE UNCHANGED <<ditem, queue, processing_items, admitted>>
    /\ UNCHANGED <<nextId, itype, itemVars, completed_items, error_items, running,
                   units, envVars, view, started, discarded>>

\* lines 112-119: 'item' in locals() holds from the first pop on
LoopSpawn ==
    /\ dpc = "spawn"
    /\ dpc' = "while"
    /\ IF ditem # NoItem
       THEN /\ units' = units (+) SetToBag({NewUnit(ditem)})
            /\ started' = [started EXCEPT ![ditem] = @ + 1]
       ELSE UNCHANGED <<units, started>>
    /\ UNCHANGED <<nextId, itype, itemVars, collVars, running, ditem, envVars, view,
                   admitted, discarded>>

\* ---- _process_item: one worker thread, r is its record in units ----
Raise(r, m) == Replace(r, [r EXCEPT !.pc = "err_status", !.msg = m])

Originals(k) == [x \in 1 .. k |-> "original"]

\* history: what happened to each file, in the order of the files
Skipped(k) == [x \in 1 .. k |-> "skipped"]

ContinueAlways(r, i, done) ==
    {[r EXCEPT !.pc = "ffmpeg", !.i = k, !.left = limits.reports,
               !.processed = done \o Originals(k - i),
               !.outcome = @ \o Skipped(k - i)] : k \in i .. r.n - 1}
    \cup {[r EXCEPT !.pc = "set_status", !.i = r.n, !.left = 0,
                    !.processed = done \o Originals(r.n - i),
                    !.outcome = @ \o Skipped(r.n - i)]}

\* processor lines 69-94 with _process_downloaded_file lines 132-194: from file i
\* on, files that need no conversion (no ffmpeg, format already right) come
\* back unchanged, until ffmpeg is started on one or the files are exhausted
\* and the result is returned.  With auto_process off (lines 136-137) every
\* file comes back unchanged and ffmpeg is never started.
Continue(r, i, done) ==
    {[r EXCEPT !.pc = "ffmpeg", !.i = k, !.left = limits.reports,
               !.processed = done \o Originals(k - i),
               !.outcome = @ \o Skipped(k - i)] :
        k \in IF auto_process THEN i .. r.n - 1 ELSE {}}
    \cup {[r EXCEPT !.pc = "set_status", !.i = r.n, !.left = 0,
                    !.processed = done \o Originals(r.n - i),
                    !.outcome = @ \o Skipped(r.n - i)]}

\* lines 130-149: status is written, then the stage call is entered.
\* process_url lines 37-42 and process_file line 105 raise before any work.
WorkerStart(r) ==
    LET j == r.item IN
    /\ r.pc = "start"
    /\ status' = [status EXCEPT ![j] = "processing"]
    /\ IF itype[j] = "url"
       THEN IF ~yt_dlp_available
            THEN Raise(r, MsgNotConfigured)
            ELSE \/ Raise(r, MsgUnsupported)
                 \/ Replace(r, [r EXCEPT !.pc = "download", !.left = limits.reports,
                                          !.policy = auto_process])
       ELSE \/ Raise(r, MsgFileNotFound)
            \/ \E r2 \in Continue([r EXCEPT !.n = 1, !.policy = auto_process],
                                    0, <<>>) :
                    Replace(r, r2)
    /\ UNCHANGED <<nextId, itype, progress, error_message, output_file, collVars,
                   running, loopVars, envVars, view, histVars>>

\* queue_manager line 135, the callback every stage value ends in
progress_callback(j, p) == progress' = [progress EXCEPT ![j] = p]

\* downloader lines 143-146 through processor lines 53-56
DownloadReport(r) ==
    LET j == r.item IN
    /\ r.pc = "download"
    /\ r.left > 0
    /\ \E p \in Reports : progress_callback(j, download_progress(p))
    /\ Replace(r, [r EXCEPT !.left = @ - 1])
    /\ UNCHANGED <<nextId, itype, status, error_message, output_file, collVars,
                   running, loopVars, envVars, view, histVars>>

\* downloader lines 158-172, processor lines 60-65
DownloadEnd(r) ==
    LET j == r.item IN
    /\ r.pc = "download"
    /\ \/ /\ Raise(r, MsgDownloadFailed)
          /\ UNCHANGED progress
       \/ /\ progress_callback(j, download_progress(10000))
          /\ \E n \in 0 .. limits.files :
                IF n = 0
                THEN Raise(r, MsgNoFiles)
                ELSE \E r2 \in Continue([r EXCEPT !.n = n], 0, <<>>) : Replace(r, r2)
    /\ UNCHANGED <<nextId, itype, status, error_message, output_file, collVars,
                   running, loopVars, envVars, view, histVars>>

\* what the callback handed to ffmpeg writes: process_progress for a url
\* (processor lines 73-77), the raw callback for a file (line 117)
StageProgress(r, p) ==
    IF itype[r.item] = "url" THEN process_progress(r.i, r.n, p) ELSE p

\* ffmpeg_wrapper lines 222-225
TranscodeReport(r) ==
    LET j == r.item IN
    /\ r.pc = "ffmpeg"
    /\ r.left > 0
    /\ \E p \in Reports : progress_callback(j, StageProgress(r, p))
    /\ Replace(r, [r EXCEPT !.left = @ - 1])
    /\ UNCHANGED <<nextId, itype, status, error_message, output_file, collVars,
                   running, loopVars, envVars, view, histVars>>

Did(r, what) == [r EXCEPT !.outcome = Append(@, what)]

KeepOutput(done) == Append(done, "converted")

\* processor lines 206-209 (and 82-85): a file whose conversion raised is
\* recorded with the path it was acquired at
KeepOriginal(done) == Append(done, "original")

TranscodeEndRaising(r) ==
    LET j == r.item IN
    /\ r.pc = "ffmpeg"
    /\ \/ /\ progress_callback(j, StageProgress(r, 10000))
          /\ \E r2 \in Continue(Did(r, "converted"), r.i + 1,
                                 Append(r.processed, "converted")) :
                Replace(r, r2)
       \/ /\ UNCHANGED progress
          /\ Replace(r, [r EXCEPT !.pc = "err_status",
                                   !.msg = "FFMPEG failed with return code",
                                   !.outcome = Append(@, "failed")])
    /\ UNCHANGED <<nextId, itype, status, error_message, output_file, collVars,
                   running, loopVars, envVars, view, histVars>>

\* ffmpeg_wrapper lines 228-240, processor lines 204-209: on success the last
\* callback and the converted path, on failure the original path
TranscodeEnd(r) ==
    LET j == r.item IN
    /\ r.pc = "ffmpeg"
    /\ \/ /\ progress_callback(j, StageProgress(r, 10000))
          /\ \E r2 \in Continue(Did(r, "converted"), r.i + 1,
                                 Append(r.processed, "converted")) :
                Replace(r, r2)
       \/ /\ UNCHANGED progress
          /\ \E r2 \in Continue(Did(r, "failed"), r.i + 1,
                                 KeepOriginal(r.processed)) :
                Replace(r, r2)
    /\ UNCHANGED <<nextId, itype, status, error_message, output_file, collVars,
                   running, loopVars, envVars, view, histVars>>

\* line 154
SetCompleted(r) ==
    LET j == r.item IN
    /\ r.pc = "set_status"
    /\ status' = [status EXCEPT ![j] = "completed"]
    /\ Replace(r, [r EXCEPT !.pc = "set_progress"])
    /\ UNCHANGED <<nextId, itype, progress, error_message, output_file, collVars,
                   running, loopVars, envVars, view, histVars>>

\* line 155
SetFullProgress(r) ==
    LET j == r.item IN
    /\ r.pc = "set_progress"
    /\ progress' = [progress EXCEPT ![j] = 10000]
    /\ Replace(r, [r EXCEPT !.pc = "set_output"])
    /\ UNCHANGED <<nextId, itype, status, error_message, output_file, collVars,
                   running, loopVars, envVars, view, histVars>>

\* lines 156-157: output_file is the first processed file
SetOutput(r) ==
    LET j == r.item IN
    /\ r.pc = "set_output"
    /\ output_file' = [output_file EXCEPT ![j] = r.processed[1]]
    /\ Replace(r, [r EXCEPT !.pc = "move_completed"])
    /\ UNCHANGED <<nextId, itype, status, progress, error_message, collVars,
                   running, loopVars, envVars, view, histVars>>

MoveCompletedIfInFlight(r) ==
    LET j == r.item IN
    /\ r.pc = "move_completed"
    /\ processing_items' = Remove(processing_items, j)
    /\ completed_items' = IF j \in Range(processing_items)
                           THEN Append(completed_items, j)
                           ELSE completed_items
    /\ Finish(r)
    /\ UNCHANGED <<nextId, itype, itemVars, queue, error_items, running, loopVars,
                   envVars, view, histVars>>

\* lines 160-163, under the lock
MoveCompleted(r) ==
    LET j == r.item IN
    /\ r.pc = "move_completed"
    /\ processing_items' = Remove(processing_items, j)
    /\ completed_items' = Append(completed_items, j)
    /\ Finish(r)
    /\ UNCHANGED <<nextId, itype, itemVars, queue, error_items, running, loopVars,
                   envVars, view, histVars>>

\* line 167
SetError(r) ==
    LET j == r.item IN
    /\ r.pc = "err_status"
    /\ status' = [status EXCEPT ![j] = "error"]
    /\ Replace(r, [r EXCEPT !.pc = "err_message"])
    /\ UNCHANGED <<nextId, itype, progress, error_message, output_file, collVars,
                   running, loopVars, envVars, view, histVars>>

\* lines 168-169
SetErrorMessage(r) ==
    LET j == r.item IN
    /\ r.pc = "err_message"
    /\ error_message' = [error_message EXCEPT ![j] = r.msg]
    /\ Replace(r, [r EXCEPT !.pc = "move_error"])
    /\ UNCHANGED <<nextId, itype, status, progress, output_file, collVars,
                   running, loopVars, envVars, view, histVars>>

ErrorCleanupNone(items, j) == items

\* lines 173-174: the failed item leaves the in-flight set
ErrorCleanup(items, j) == Remove(items, j)

MoveErrorLatest(r) ==
    LET j == r.item IN
    /\ r.pc = "move_error"
    /\ processing_items' = ErrorCleanup(processing_items, j)
    /\ error_items' = <<j>>
    /\ Finish(r)
    /\ UNCHANGED <<nextId, itype, itemVars, queue, completed_items, running,
                   loopVars, envVars, view, histVars>>

\* lines 172-175, under the lock
MoveError(r) ==
    LET j == r.item IN
    /\ r.pc = "move_error"
    /\ processing_items' = ErrorCleanup(processing_items, j)
    /\ error_items' = Append(error_items, j)
    /\ Finish(r)
    /\ UNCHANGED <<nextId, itype, itemVars, queue, completed_items, running,
                   loopVars, envVars, view, histVars>>

Next ==
    \/ \E t \in ItemTypes : add_item(t)
    \/ clear_completed
    \/ clear_all
    \/ stop
    \/ LoopTest
    \/ LoopCheck
    \/ LoopPop
    \/ LoopSpawn
    \/ \E r \in Live : WorkerStart(r)
    \/ \E r \in Live : DownloadReport(r)
    \/ \E r \in Live : DownloadEnd(r)
    \/ \E r \in Live : TranscodeReport(r)
    \/ \E r \in Live : TranscodeEnd(r)
    \/ \E r \in Live : SetCompleted(r)
    \/ \E r \in Live : SetFullProgress(r)
    \/ \E r \in Live : SetOutput(r)
    \/ \E r \in Live : MoveCompleted(r)
    \/ \E r \in Live : SetError(r)
    \/ \E r \in Live : SetErrorMessage(r)
    \/ \E r \in Live : MoveError(r)

Spec == Init /\ [][Next]_vars

\* local files only, submitted and left alone: nobody clears or stops
NextBurst ==
    \/ add_item("file")
    \/ LoopTest
    \/ LoopCheck
    \/ LoopPop
    \/ LoopSpawn
    \/ \E r \in Live : WorkerStart(r)
    \/ \E r \in Live : TranscodeEnd(r)
    \/ \E r \in Live : SetCompleted(r)
    \/ \E r \in Live : SetFullProgress(r)
    \/ \E r \in Live : SetOutput(r)
    \/ \E r \in Live : MoveCompleted(r)
    \/ \E r \in Live : SetError(r)
    \/ \E r \in Live : SetErrorMessage(r)
    \/ \E r \in Live : MoveError(r)

SpecBurst == InitBurst /\ [][NextBurst]_vars

InitHistory == InitWith(HistoryLimits, {TRUE})

SpecHistory == InitHistory /\ [][NextBurst]_vars

\* the queue while the user saves the settings dialog at any time
InitPolicy == InitWith(PolicyLimits, {TRUE})

NextPolicy == Next \/ apply_settings

SpecPolicy == InitPolicy /\ [][NextPolicy]_vars

\* ---- the queue with queue_lock made explicit ----
\* A 'with self.queue_lock' of the dispatch loop or of a worker is three
\* steps: the lock is taken, the section runs, the lock is given back.  The
\* public operations are called from the one GUI thread and take, use and
\* give back the lock in one step, which needs the lock to be free.
LockFrame ==
    UNCHANGED <<nextId, itype, itemVars, collVars, running, loopVars, units,
                yt_dlp_available, auto_process, upc, active_count, procVars,
                limits, view, histVars>>

\* line 107
LoopLock ==
    /\ dpc = "pop"
    /\ queue_lock.by = "none"
    /\ queue_lock' = [Unlocked EXCEPT !.by = "loop"]
    /\ LockFrame

\* the end of the block of lines 107-110
LoopUnlock ==
    /\ queue_lock.by = "loop"
    /\ dpc = "spawn"
    /\ queue_lock' = Unlocked
    /\ LockFrame

WorkerLockAnywhere(r) ==
    /\ queue_lock.by = "none"
    /\ queue_lock' = [by |-> "worker", unit |-> r, done |-> Finished(r.item)]
    /\ LockFrame

\* lines 160 and 172
WorkerLock(r) ==
    /\ r.pc \in {"move_completed", "move_error"}
    /\ queue_lock.by = "none"
    /\ queue_lock' = [by |-> "worker", unit |-> r, done |-> Finished(r.item)]
    /\ LockFrame

\* the lock is held by thread r, which has not run its section yet
HeldBy(r) ==
    /\ queue_lock.by = "worker"
    /\ queue_lock.unit = r
    /\ queue_lock.done = Finished(r.item)

\* the end of the blocks of lines 160-163 and 172-175: the thread has returned
WorkerUnlock ==
    /\ queue_lock.by = "worker"
    /\ Finished(queue_lock.unit.item) > queue_lock.done
    /\ queue_lock' = Unlocked
    /\ LockFrame

NextLock ==
    \/ queue_lock.by = "none" /\ \E t \in ItemTypes : add_item(t)
    \/ queue_lock.by = "none" /\ clear_completed
    \/ queue_lock.by = "none" /\ clear_all
    \/ stop
    \/ LoopTest
    \/ LoopCheck
    \/ LoopLock
    \/ queue_lock.by = "loop" /\ LoopPop
    \/ LoopUnlock
    \/ queue_lock.by # "loop" /\ LoopSpawn
    \/ \E r \in Live : WorkerStart(r)
    \/ \E r \in Live : DownloadReport(r)
    \/ \E r \in Live : DownloadEnd(r)
    \/ \E r \in Live : TranscodeReport(r)
    \/ \E r \in Live : TranscodeEnd(r)
    \/ \E r \in Live : SetCompleted(r)
    \/ \E r \in Live : SetFullProgress(r)
    \/ \E r \in Live : SetOutput(r)
    \/ \E r \in Live : SetError(r)
    \/ \E r \in Live : SetErrorMessage(r)
    \/ \E r \in Live : WorkerLock(r)
    \/ \E r \in Live : HeldBy(r) /\ MoveCompleted(r)
    \/ \E r \in Live : HeldBy(r) /\ MoveError(r)
    \/ WorkerUnlock

InitLock == InitWith(LockLimits, {TRUE})

SpecLock == InitLock /\ [][NextLock]_vars

\* ---- update_ui as the two calls of get_queue_items it makes ----
\* The GUI thread runs update_ui, the public operations and on_closing one
\* after the other; the dispatch loop and the workers run between any two
\* statements of it.
\* main_window lines 219-229: the rows are cleared and rendered from one call
RenderRows ==
    /\ upc = "idle"
    /\ view' = get_queue_items
    /\ upc' = "count"
    /\ UNCHANGED <<nextId, itype, itemVars, collVars, running, loopVars, units,
                   yt_dlp_available, auto_process, queue_lock, active_count,
                   procVars, limits, histVars>>

processing_rows(rows) == {k \in DOMAIN rows : rows[k].status = "processing"}

\* main_window lines 232-237: the count is taken from a second call
CountActive ==
    /\ upc = "count"
    /\ active_count' = Cardinality(processing_rows(get_queue_items))
    /\ upc' = "idle"
    /\ UNCHANGED <<nextId, itype, itemVars, collVars, running, loopVars, units,
                   yt_dlp_available, auto_process, queue_lock, procVars, limits,
                   view, histVars>>

NextRefresh ==
    \/ upc = "idle" /\ \E t \in ItemTypes : add_item(t)
    \/ upc = "idle" /\ clear_completed
    \/ upc = "idle" /\ clear_all
    \/ upc = "idle" /\ stop
    \/ RenderRows
    \/ CountActive
    \/ LoopTest
    \/ LoopCheck
    \/ LoopPop
    \/ LoopSpawn
    \/ \E r \in Live : WorkerStart(r)
    \/ \E r \in Live : DownloadReport(r)
    \/ \E r \in Live : DownloadEnd(r)
    \/ \E r \in Live : TranscodeReport(r)
    \/ \E r \in Live : TranscodeEnd(r)
    \/ \E r \in Live : SetCompleted(r)
    \/ \E r \in Live : SetFullProgress(r)
    \/ \E r \in Live : SetOutput(r)
    \/ \E r \in Live : SetError(r)
    \/ \E r \in Live : SetErrorMessage(r)
    \/ \E r \in Live : MoveCompleted(r)
    \/ \E r \in Live : MoveError(r)

InitRefresh == InitWith(RefreshLimits, {TRUE})

SpecRefresh == InitRefresh /\ [][NextRefresh]_vars

\* ---- the external processes and MediaProcessor.cleanup ----
ProcFrame ==
    UNCHANGED <<nextId, itype, itemVars, collVars, running, loopVars, units,
                yt_dlp_available, auto_process, queue_lock, upc, active_count,
                limits, view, histVars>>

\* downloader lines 120-131, ffmpeg_wrapper line 209: a worker thread starts a
\* process and stores it under its id
Register(w, p) ==
    /\ tpc[w][p] = "none"
    /\ active_processes' = [active_processes EXCEPT ![w] = @ \cup {p}]
    /\ tpc' = [tpc EXCEPT ![w][p] = "monitor"]
    /\ UNCHANGED shutdown
    /\ ProcFrame

\* downloader lines 136-172: the output ends and process.wait() returns
ProcessExit(w, p) ==
    /\ tpc[w][p] = "monitor"
    /\ tpc' = [tpc EXCEPT ![w][p] = "finally"]
    /\ UNCHANGED <<active_processes, shutdown>>
    /\ ProcFrame

\* downloader lines 174-177, ffmpeg_wrapper lines 244-245: the finally of the
\* thread that started the process
FinallyRemove(w, p) ==
    /\ tpc[w][p] = "finally"
    /\ active_processes' = [active_processes EXCEPT ![w] = @ \ {p}]
    /\ tpc' = [tpc EXCEPT ![w][p] = "done"]
    /\ UNCHANGED shutdown
    /\ ProcFrame

\* processor line 213 and downloader line 216: the keys are listed
ProcessorCleanup ==
    /\ shutdown.pc = "idle"
    /\ shutdown' = [shutdown EXCEPT !.pc = "iterate",
                                    !.wrapper = "downloader",
                                    !.todo = active_processes["downloader"],
                                    !.at_start = active_processes]
    /\ UNCHANGED <<active_processes, tpc>>
    /\ ProcFrame

\* processor line 214 and ffmpeg_wrapper line 285: the first loop is over
CleanupFfmpeg ==
    /\ shutdown.pc = "iterate"
    /\ shutdown.todo = {}
    /\ shutdown.wrapper = "downloader"
    /\ shutdown' = [shutdown EXCEPT !.wrapper = "ffmpeg",
                                    !.todo = active_processes["ffmpeg"]]
    /\ UNCHANGED <<active_processes, tpc>>
    /\ ProcFrame

CleanupReturn ==
    /\ shutdown.pc = "iterate"
    /\ shutdown.todo = {}
    /\ shutdown.wrapper = "ffmpeg"
    /\ shutdown' = [shutdown EXCEPT !.pc = "done"]
    /\ UNCHANGED <<active_processes, tpc>>
    /\ ProcFrame

\* downloader lines 202-205: the test of cancel_download
CancelCheck(p) ==
    /\ shutdown.pc = "iterate"
    /\ p \in shutdown.todo
    /\ shutdown' = [shutdown EXCEPT
                        !.todo = @ \ {p},
                        !.pid = p,
                        !.pc = IF p \in active_processes[shutdown.wrapper]
                               THEN "terminate" ELSE "iterate"]
    /\ UNCHANGED <<active_processes, tpc>>
    /\ ProcFrame

\* downloader lines 206-210: terminate, wait up to 5 s, kill
CancelTerminate ==
    LET w == shutdown.wrapper
        p == shutdown.pid IN
    /\ shutdown.pc = "terminate"
    /\ tpc' = [tpc EXCEPT ![w][p] = IF @ = "monitor" THEN "finally" ELSE @]
    /\ shutdown' = [shutdown EXCEPT !.pc = "del"]
    /\ UNCHANGED active_processes
    /\ ProcFrame

\* downloader lines 211-212: del of a key that may be gone raises KeyError,
\* which leaves both loops and is logged at processor lines 215-216
CancelFinally ==
    LET w == shutdown.wrapper
        p == shutdown.pid IN
    /\ shutdown.pc = "del"
    /\ IF p \in active_processes[w]
       THEN /\ active_processes' = [active_processes EXCEPT ![w] = @ \ {p}]
            /\ shutdown' = [shutdown EXCEPT !.pc = "iterate"]
       ELSE /\ shutdown' = [shutdown EXCEPT !.pc = "done", !.raised = TRUE]
            /\ UNCHANGED active_processes
    /\ UNCHANGED tpc
    /\ ProcFrame

NextCleanup ==
    \/ \E w \in Wrappers, p \in Pids : Register(w, p)
    \/ \E w \in Wrappers, p \in Pids : ProcessExit(w, p)
    \/ \E w \in Wrappers, p \in Pids : FinallyRemove(w, p)
    \/ ProcessorCleanup
    \/ CleanupFfmpeg
    \/ CleanupReturn
    \/ \E p \in Pids : CancelCheck(p)
    \/ CancelTerminate
    \/ CancelFinally

InitCleanup == InitWith(QueueLimits, {TRUE})

SpecCleanup == InitCleanup /\ [][NextCleanup]_vars

\* a step of the dispatch thread
process_queue == LoopTest \/ LoopCheck \/ LoopPop \/ LoopSpawn

\* a step of the worker thread r
process_item(r) ==
    \/ WorkerStart(r) \/ DownloadReport(r) \/ DownloadEnd(r)
    \/ TranscodeReport(r) \/ TranscodeEnd(r)
    \/ SetCompleted(r) \/ SetFullProgress(r) \/ SetOutput(r) \/ MoveCompleted(r)
    \/ SetError(r) \/ SetErrorMessage(r) \/ MoveError(r)

\* Threads are scheduled fairly and stage calls return: the dispatch thread
\* (main_window line 32) and the threads on each job (line 119) go on taking
\* steps while they have one to take.  Nothing is assumed of the user.
Fairness ==
    /\ WF_vars(process_queue)
    /\ \A j \in Jobs : WF_vars(\E r \in UnitsOn(j) : process_item(r))

\* the runs that are checked for progress
InitFair == InitWith(FairLimits, {TRUE})

SpecFair == InitFair /\ [][Next]_vars /\ Fairness

\* the queue with its observer, which polls at any time
InitView == InitWith(ViewLimits, {TRUE})

NextView == Next \/ update_ui

SpecView == InitView /\ [][NextView]_vars

TypeOK ==
    /\ nextId \in 0 .. limits.jobs
    /\ auto_process \in BOOLEAN
    /\ queue_lock.by \in {"none", "loop", "worker"}
    /\ BagCardinality(units) <= limits.units

\* ======================= the claims =======================
Terminal == {"completed", "error"}

Submitted == 1 .. nextId

Occurrences(j) ==
    Count(queue, j) + Count(processing_items, j) + Count(completed_items, j)
        + Count(error_items, j)

\* C1: every job is in at most one of the four collections and at most once
\* there, and a submitted job that no clear operation discarded is in exactly one
C1_OneCollection ==
    \A j \in Jobs :
        /\ Occurrences(j) <= 1
        /\ (j \in Submitted /\ j \notin discarded) => Occurrences(j) = 1

\* C2: the in-flight set never holds more than max_concurrent jobs
C2_InFlightBounded == Len(processing_items) <= max_concurrent

\* the in-flight set is full while a job waits and the loop has gone round
C2_Witness ==
    /\ Len(processing_items) = max_concurrent
    /\ queue # <<>>
    /\ dpc = "while"
    /\ \E r \in Live : r.pc = "move_completed"

\* C3: no job ever has more than one thread started on it
C3_OneUnitPerJob == \A j \in Jobs : started[j] <= 1

\* C4: a status of completed or error never changes again
C4_TerminalStable ==
    [][\A j \in Jobs : status[j] \in Terminal => status'[j] = status[j]]_vars

ShownProcessing ==
    {get_queue_items[k].id :
        k \in {x \in DOMAIN get_queue_items : get_queue_items[x].status = "processing"}}

\* C5: a snapshot never shows more than max_concurrent jobs as processing
C5_SnapshotRunningBounded == Cardinality(ShownProcessing) <= max_concurrent

\* C6: jobs are admitted in the order they were submitted
C6_FifoAdmission ==
    \A a, b \in DOMAIN admitted : a < b => admitted[a] < admitted[b]

\* every job was admitted, one of them after a slot had been freed
C6_Witness == Len(admitted) = MaxJobs /\ limits = QueueLimits

\* C7: the progress of a job never decreases
C7_ProgressMonotone ==
    [][\A j \in Jobs : progress'[j] >= progress[j]]_vars

AcquireFailures == {MsgNotConfigured, MsgUnsupported, MsgDownloadFailed, MsgNoFiles}

\* C8: a job whose Acquire stage failed (its error_message records it) is never
\* completed afterwards
C8_AcquireFailureFinal ==
    \A j \in Jobs : error_message[j] \in AcquireFailures => status[j] # "completed"

Handling == {"err_status", "err_message", "move_error"}

\* the step is one of thread r
StepOf(r) == CopiesIn(r, units') < CopiesIn(r, units)

\* C9: a step of the error handler of a thread writes 'error' on the job of that
\* thread and on no other job, leaves the dispatch loop where it is, and ends
\* with the job out of the in-flight set and in the error history; the loop
\* exits only after stop
C9_FailureContained ==
    [][/\ dpc' = "exit" => ~running'
       /\ \A r \in Live :
            (r.pc \in Handling /\ StepOf(r)) =>
                /\ \A k \in Jobs \ {r.item} : status'[k] = status[k]
                /\ status'[r.item] = IF r.pc = "err_status" THEN "error" ELSE status[r.item]
                /\ dpc' = dpc /\ ditem' = ditem /\ running' = running
                /\ queue' = queue
                /\ r.pc = "move_error" =>
                     /\ r.item \notin Range(processing_items')
                     /\ error_items' = Append(error_items, r.item)]_vars

\* a job failed and left the in-flight set, a later job is running and the
\* loop is alive
C9_Witness ==
    \E j \in Range(error_items) :
        /\ status[j] = "error"
        /\ j \notin Range(processing_items)
        /\ dpc # "exit"
        /\ \E k \in Range(processing_items) : k > j /\ status[k] = "processing"

ShownIds(snap) == {snap[k].id : k \in DOMAIN snap}

ShownWith(snap, st) == {k \in DOMAIN snap : snap[k].status = st}

OneRunningTwoQueued ==
    /\ Len(queue) = 2
    /\ Len(processing_items) = 1
    /\ status[processing_items[1]] = "processing"

\* C10: clear_all empties the pending queue and both histories and leaves the
\* in-flight set, its jobs and their threads as they are; the snapshot taken
\* next shows the in-flight jobs only, and with one job running and two queued
\* it shows no queued, completed or failed job and the running job with its
\* thread still live
C10_ClearAllFrame ==
    [][clear_all =>
        LET snap == snapshot_items' IN
        /\ queue' = <<>> /\ completed_items' = <<>> /\ error_items' = <<>>
        /\ processing_items' = processing_items
        /\ units' = units /\ status' = status /\ progress' = progress
        /\ ShownIds(snap) = Range(processing_items)
        /\ Len(snap) = Len(processing_items)
        /\ OneRunningTwoQueued =>
             /\ ShownWith(snap, "queued") = {}
             /\ ShownWith(snap, "completed") = {}
             /\ ShownWith(snap, "error") = {}
             /\ processing_items[1] \in ShownIds(snap)
             /\ UnitsOn(processing_items[1]) # {}]_vars

\* after clear_all: one job running, two jobs discarded while still queued
C10_Witness ==
    /\ queue = <<>> /\ completed_items = <<>> /\ error_items = <<>>
    /\ Len(processing_items) = 1
    /\ status[processing_items[1]] = "processing"
    /\ Cardinality({j \in discarded : status[j] = "queued"}) = 2

\* C11: clear_completed empties the completed history and leaves the pending
\* queue, the in-flight set, the error history, the jobs and their threads as
\* they are, in whatever state it is called
C11_ClearCompletedFrame ==
    [][clear_completed =>
        /\ completed_items' = <<>>
        /\ queue' = queue
        /\ processing_items' = processing_items
        /\ error_items' = error_items
        /\ units' = units /\ itemVars' = itemVars]_vars

\* after clear_completed: a completed job was discarded while one job had
\* failed and another was in flight
C11_Witness ==
    /\ completed_items = <<>>
    /\ \E j \in discarded : status[j] = "completed"
    /\ error_items # <<>>
    /\ processing_items # <<>>

RowsOf(snap, j) == {k \in DOMAIN snap : snap[k].id = j}

\* C12: add_item creates a job of the given type with status 'queued' and
\* progress 0, puts it at the tail of the pending queue and touches no other
\* job or collection; the snapshot of the state it leaves has one row for the
\* job, with status 'queued' and progress 0
C12_SubmitQueued ==
    [][\A t \in ItemTypes : add_item(t) =>
        LET j == nextId'
            snap == snapshot_items'
        IN  /\ j = nextId + 1
            /\ itype'[j] = t
            /\ queue' = Append(queue, j)
            /\ status'[j] = "queued" /\ progress'[j] = 0
            /\ error_message'[j] = "" /\ output_file'[j] = ""
            /\ processing_items' = processing_items
            /\ completed_items' = completed_items /\ error_items' = error_items
            /\ Cardinality(RowsOf(snap, j)) = 1
            /\ \A k \in RowsOf(snap, j) :
                    snap[k].status = "queued" /\ snap[k].progress = 0]_vars

\* after add_item: the new job waits behind an older one while a third is running
C12_Witness ==
    /\ Len(queue) >= 2
    /\ queue[Len(queue)] = nextId
    /\ status[nextId] = "queued" /\ progress[nextId] = 0
    /\ \E j \in Range(processing_items) : status[j] = "processing"

\* C13: the snapshot has exactly one row for every job that is in one of the
\* four collections, and no row for any other job
C13_SnapshotEveryJobOnce ==
    LET snap == get_queue_items IN
    \A j \in Jobs :
        Cardinality(RowsOf(snap, j)) = IF Occurrences(j) > 0 THEN 1 ELSE 0

\* C14: the rows of a snapshot are in the order of created_at, latest first,
\* wherever the jobs are and in whatever order they were admitted or finished
C14_SnapshotNewestFirst ==
    LET snap == get_queue_items IN
    \A a, b \in DOMAIN snap : a < b => snap[a].created_at >= snap[b].created_at

\* an older job finished after a younger one while a third still waits, so
\* the collections hold the jobs in another order than the snapshot shows them
C14_Witness ==
    /\ Len(queue) = 1
    /\ Len(completed_items) + Len(error_items) = 2
    /\ \E a, b \in DOMAIN snapshot_items :
            a < b /\ snapshot_items[a].created_at < snapshot_items[b].created_at
    /\ [k \in DOMAIN get_queue_items |-> get_queue_items[k].id] = <<3, 2, 1>>

\* what the observer reads from a row it holds: the values in the row, or, were
\* the row the item itself, the values the item has now
Shown(row) ==
    IF "ref" \in DOMAIN row
    THEN [id |-> row.ref, type |-> itype[row.ref], status |-> status[row.ref],
          progress |-> progress[row.ref], error_message |-> error_message[row.ref],
          output_file |-> output_file[row.ref], created_at |-> row.ref]
    ELSE row

ShownRows == [k \in DOMAIN view |-> Shown(view[k])]

\* C15: what a returned snapshot shows changes with no step of a worker, of
\* the dispatch loop or of a public operation, only with the next call of
\* get_queue_items; and no row of it is an item of the collections, so that
\* writing to a row writes to no job
C15_SnapshotIsCopy ==
    [][/\ (ShownRows' = ShownRows) \/ update_ui
       /\ \A k \in DOMAIN view' : "ref" \notin DOMAIN view'[k]]_vars

\* the observer holds a snapshot that shows the job as processing with no
\* progress, and the job has completed since
C15_Witness ==
    \E k \in DOMAIN view :
        /\ view[k].status = "processing" /\ view[k].progress = 0
        /\ status[view[k].id] = "completed" /\ progress[view[k].id] = 10000
        /\ output_file[view[k].id] # view[k].output_file
        /\ view[k].id \in Range(completed_items)

\* C16: once stop has returned (running is false) no job is moved from the
\* pending queue to the in-flight set, no thread is started, and the jobs that
\* wait are still queued
C16_StopHaltsAdmission ==
    [][~running =>
        /\ admitted' = admitted
        /\ started' = started
        /\ \A j \in Range(queue') : status'[j] = "queued"]_vars

Settled(j) ==
    /\ j \notin Range(processing_items)
    /\ \/ status[j] = "completed" /\ j \in Range(completed_items)
       \/ status[j] = "error" /\ j \in Range(error_items)

\* C17: a job that is in the in-flight set once stop was called is, at some
\* later time, out of the in-flight set and in the history that matches its
\* status, completed or error
C17_InFlightFinishes ==
    \A j \in Jobs : (~running /\ j \in Range(processing_items)) ~> Settled(j)

\* stop was called and the loop has ended while a job is in the middle of a
\* stage call
C17_Witness ==
    /\ ~running /\ dpc = "exit"
    /\ \E j \in Range(processing_items) :
            \E r \in UnitsOn(j) : r.pc \in {"download", "ffmpeg"}

Completing == {"set_status", "set_progress", "set_output", "move_completed"}

\* C18: a thread on a url job whose download returned N >= 1 files never
\* enters the error handler, whichever conversions fail; the list of processed
\* files follows the files in their order, with the original path for a file
\* whose conversion failed (or was not needed) and the output path for a file
\* that was converted; when every file is done the list has N entries and the
\* thread is on the path that writes 'completed'
C18_PartialFailureSwallowed ==
    \A r \in Live :
        (itype[r.item] = "url" /\ r.n >= 1) =>
            /\ r.pc \notin Handling
            /\ Len(r.processed) = Len(r.outcome)
            /\ \A k \in DOMAIN r.processed :
                    r.processed[k] =
                        IF r.outcome[k] = "converted" THEN "converted" ELSE "original"
            /\ r.pc = "ffmpeg" => Len(r.processed) = r.i
            /\ r.pc \in Completing => Len(r.processed) = r.n
            /\ Len(r.outcome) = r.n => r.pc \in Completing

\* two files were downloaded, the conversion of the first failed and that of
\* the second succeeded; the job is completed with the original first file
C18_Witness ==
    \E r \in Live :
        /\ itype[r.item] = "url" /\ r.n = 2
        /\ r.outcome = <<"failed", "converted">>
        /\ r.processed = <<"original", "converted">>
        /\ r.pc = "move_completed"
        /\ status[r.item] = "completed" /\ output_file[r.item] = "original"

\* the failures a job of the given type can end with
CausesOf(t) == IF t = "url" THEN AcquireFailures ELSE {MsgFileNotFound}

Recorded(j, causes) ==
    \/ \E r \in UnitsOn(j) : r.pc \in {"err_message", "move_error"} /\ r.msg \in causes
    \/ error_message[j] \in causes

\* C19, as claimed: a job has status 'error' only if it is a url job whose
\* Acquire stage failed or yielded no file
C19_FailedOnlyByAcquire ==
    \A j \in Jobs :
        status[j] = "error" => itype[j] = "url" /\ Recorded(j, AcquireFailures)

\* C19, amended: a job has status 'error' only if it is a url job whose Acquire
\* stage failed or yielded no file, or a file job whose source file does not
\* exist; a thread enters the error handler only before any file was handed to
\* Transcode, so no conversion failure fails a job
C19_FailedOnlyBeforeTranscode ==
    /\ \A j \in Jobs : status[j] = "error" => Recorded(j, CausesOf(itype[j]))
    /\ \A r \in Live :
            r.pc \in Handling =>
                /\ r.msg \in CausesOf(itype[r.item])
                /\ r.n = 0 /\ r.outcome = <<>> /\ r.processed = <<>>

\* a file job has failed because its file does not exist
C19_Witness ==
    \E j \in Range(error_items) :
        /\ itype[j] = "file"
        /\ status[j] = "error"
        /\ error_message[j] = MsgFileNotFound

\* C20: a url job whose download returned no file (its error_message records
\* it) is never completed, and no file of it is ever handed to Transcode; a
\* thread that found no file goes to the error handler with a message
C20_NoFilesFails ==
    /\ \A r \in Live : r.msg = MsgNoFiles => r.pc \in Handling /\ r.outcome = <<>>
    /\ \A j \in Jobs :
            error_message[j] = MsgNoFiles =>
                /\ status[j] # "completed"
                /\ \A r \in UnitsOn(j) :
                        r.pc # "ffmpeg" /\ r.pc \notin Completing

\* the threads on file jobs while conversion is switched off
PolicyOffUnits == {r \in Live : itype[r.item] = "file" /\ ~auto_process}

\* C21, as claimed: with auto_process off a thread on a file job never enters
\* the error handler and never starts ffmpeg, and a file job in the completed
\* history has the path it was submitted with as output_file
C21_PolicyOffCompletes ==
    /\ \A r \in PolicyOffUnits : r.pc \notin Handling /\ r.pc # "ffmpeg"
    /\ \A j \in Range(completed_items) :
            (itype[j] = "file" /\ ~auto_process) => output_file[j] = "original"

\* C21, amended: with auto_process off a thread on a file job goes from its
\* start either to the error handler with "File not found" or straight to the
\* completion steps with the submitted path as its only processed file; it
\* never starts ffmpeg, and a file job in the completed history has the
\* submitted path as output_file
C21_PolicyOffKeepsInput ==
    /\ \A r \in PolicyOffUnits :
            /\ r.pc \in {"start"} \cup Handling \cup Completing
            /\ r.pc \in Handling => r.msg = MsgFileNotFound /\ r.outcome = <<>>
            /\ r.pc \in Completing =>
                    r.processed = <<"original">> /\ r.outcome = <<"skipped">>
    /\ \A j \in Jobs :
            (itype[j] = "file" /\ ~auto_process) =>
                /\ output_file[j] \in {"", "original"}
                /\ j \in Range(completed_items) => output_file[j] = "original"

\* a file job was completed with conversion switched off
C21_Witness ==
    /\ ~auto_process
    /\ \E j \in Range(completed_items) :
            /\ itype[j] = "file"
            /\ status[j] = "completed"
            /\ output_file[j] = "original"

\* the threads on job j that are inside a stage call
InStage(j) == {r \in UnitsOn(j) : r.pc \in {"download", "ffmpeg"}}

\* C22: no job is inside two stage calls at once, and once a job has status
\* 'completed' or 'error', or is in one of the two histories, no thread is
\* inside a stage call for it
C22_NoRetry ==
    \A j \in Jobs :
        /\ \A r \in InStage(j) : InStage(j) = {r} /\ CopiesIn(r, units) = 1
        /\ (status[j] \in Terminal
                \/ j \in Range(completed_items) \cup Range(error_items))
            => InStage(j) = {}

\* C23: neither history ever holds more entries than the retention bound,
\* the number of entries of each history that a snapshot shows
C23_HistoryBounded ==
    /\ Len(completed_items) <= SnapshotTail
    /\ Len(error_items) <= SnapshotTail

IsPrefix(s, t) == Len(s) <= Len(t) /\ SubSeq(t, 1, Len(s)) = s

\* C24: every step other than clear_all leaves each entry of the error
\* history where it is (the history only grows at its end), and each job among
\* its last SnapshotTail entries has a row in the snapshot of the new state
C24_FailedStays ==
    [][\/ clear_all
       \/ /\ IsPrefix(error_items, error_items')
          /\ \A j \in Range(Last(error_items', SnapshotTail)) :
                RowsOf(snapshot_items', j) # {}]_vars

\* a failed job is still in the error history after a job submitted later was
\* completed and cleared, and after stop
C24_Witness ==
    /\ ~running
    /\ \E j \in Range(error_items) :
            /\ status[j] = "error"
            /\ \E k \in discarded : k > j /\ status[k] = "completed"

\* C25: a job whose status is 'queued', 'processing' or 'completed' has an
\* empty error_message
C25_MessageOnlyWhenFailed ==
    \A j \in Jobs : status[j] # "error" => error_message[j] = ""

\* C26: a job whose status is 'queued', 'processing' or 'error' has an empty
\* output_file
C26_OutputOnlyWhenCompleted ==
    \A j \in Jobs : status[j] # "completed" => output_file[j] = ""

\* v is 70 + (i + p/100) * 30 / n, capped at 100, with v and p in hundredths
\* of a percent: the equation is multiplied out, so that nothing is rounded
SliceOf(v, i, n, p) ==
    LET x == (10000 * i + p) * 3
    IN  IF x >= 30000 * n THEN v = 10000 ELSE (v - 7000) * 10 * n = x

\* C27: a step of a thread that is converting file i of the n files of a url
\* job, and that changes the progress of the job, writes 70 + (i + p/100)*30/n
\* capped at 100 for a stage value p; with two files, 50 percent of file 0
\* gives 77.5 and 100 percent of file 1 gives 100
C27_TranscodeSlice ==
    [][/\ process_progress(0, 2, 5000) = 7750
       /\ process_progress(1, 2, 10000) = 10000
       /\ \A r \in Live :
            (/\ StepOf(r)
             /\ r.pc = "ffmpeg"
             /\ itype[r.item] = "url"
             /\ progress'[r.item] # progress[r.item])
            => \E p \in Reports : SliceOf(progress'[r.item], r.i, r.n, p)]_vars

\* the first of two files of a url job is half converted
C27_Witness ==
    \E r \in Live :
        /\ itype[r.item] = "url"
        /\ r.pc = "ffmpeg" /\ r.n = 2 /\ r.i = 0
        /\ progress[r.item] = 7750

\* C28: with stage values between 0 and 100, every step leaves the progress
\* of every job between 0 and 100, and a step of a thread that is inside the
\* download of a url job, and that changes the progress of the job, writes
\* p * 0.7 for a stage value p, which is at most 70
C28_ProgressInRange ==
    [][/\ \A j \in Jobs : progress'[j] >= 0 /\ progress'[j] <= 10000
       /\ \A r \in Live :
            (/\ StepOf(r)
             /\ r.pc = "download"
             /\ progress'[r.item] # progress[r.item])
            => /\ \E p \in Reports : progress'[r.item] * 10 = p * 7
               /\ progress'[r.item] <= 7000]_vars

\* a download is half done
C28_Witness ==
    \E r \in Live :
        /\ itype[r.item] = "url"
        /\ r.pc = "download"
        /\ progress[r.item] = 3500

\* C29: a step of a thread that is converting the file of a file job, and that
\* changes the progress of the job, writes a value between 70 and 100
C29_LocalSlice ==
    [][\A r \in Live :
            (/\ StepOf(r)
             /\ r.pc = "ffmpeg"
             /\ itype[r.item] = "file"
             /\ progress'[r.item] # progress[r.item])
            => progress'[r.item] >= 7000 /\ progress'[r.item] <= 10000]_vars

\* C30: a job whose status is 'completed' has progress 100 and the first
\* processed file as output_file
C30_CompletedWhole ==
    \A j \in Jobs :
        status[j] = "completed" =>
            /\ progress[j] = 10000
            /\ output_file[j] \in {"original", "converted"}

\* C31: the last step of a thread takes its job out of the in-flight set and
\* appends it to the completed history (to the error history after a
\* failure), whatever the histories hold and whether or not the job is still
\* in the in-flight set: a history that clear_all emptied is not empty after
\* the step
C31_FinishedAfterClearAll ==
    [][\A r \in Live :
            StepOf(r) =>
                /\ r.pc = "move_completed" =>
                        /\ completed_items' = Append(completed_items, r.item)
                        /\ r.item \notin Range(processing_items')
                /\ r.pc = "move_error" =>
                        /\ error_items' = Append(error_items, r.item)
                        /\ r.item \notin Range(processing_items')]_vars

\* clear_all removed a pending job while an earlier job was in flight (the
\* earlier job is not among the discarded ones), and the earlier job is now
\* in a history
C31_Witness ==
    \E j \in Range(completed_items) \cup Range(error_items) :
        /\ j \notin discarded
        /\ j \notin Range(processing_items)
        /\ \E k \in discarded : k > j /\ status[k] = "queued"

\* C32: never more than max_concurrent threads are inside _process_item
C32_UnitsBounded == BagCardinality(units) <= max_concurrent

\* C37: every row of the snapshot has the status of the collection it was read
\* from: 'queued' in the pending queue, 'processing' in the in-flight set,
\* 'completed' in the completed history and 'error' in the error history
C37_StatusMatchesCollection ==
    /\ \A j \in Range(queue) : to_dict(j).status = "queued"
    /\ \A j \in Range(processing_items) : to_dict(j).status = "processing"
    /\ \A j \in Range(Last(completed_items, SnapshotTail)) :
            to_dict(j).status = "completed"
    /\ \A j \in Range(Last(error_items, SnapshotTail)) : to_dict(j).status = "error"

\* C36: started_at is unset exactly while the status is 'queued', and
\* completed_at is unset exactly while the status is 'queued' or 'processing'
C36_TimestampsFollowLifecycle ==
    \A j \in Jobs :
        /\ started_at_set(j) <=> status[j] # "queued"
        /\ completed_at_set(j) <=> status[j] \in Terminal

\* C35: a thread that was started while auto_process was off never starts
\* ffmpeg and records every file as skipped, whatever is saved in the
\* settings while it runs
C35_PolicyDecidedOnce ==
    \A r \in Live :
        ~r.policy =>
            /\ r.pc # "ffmpeg"
            /\ \A k \in DOMAIN r.outcome : r.outcome[k] = "skipped"

\* C33: the lock is never held by a thread that is inside a stage call: a
\* worker that holds it is at one of its two moves (lines 160 and 172) or has
\* just returned, and the dispatch loop holds it only around its pop, so the
\* holder can always run to its release without any stage call returning
C33_LockNeverHeldInStage ==
    /\ \A r \in Live : r.pc \in {"download", "ffmpeg"} => ~HeldBy(r)
    /\ queue_lock.by = "worker" =>
            /\ queue_lock.unit.pc \in {"move_completed", "move_error"}
            /\ \/ HeldBy(queue_lock.unit) /\ queue_lock.unit \in Live
               \/ Finished(queue_lock.unit.item) > queue_lock.done
    /\ queue_lock.by = "loop" => dpc \in {"pop", "spawn"}

\* a worker holds the lock while another thread is inside a stage call
C33_Witness ==
    /\ queue_lock.by = "worker"
    /\ \E r \in Live : r.pc \in {"download", "ffmpeg"}

\* C34: a step of the dispatch loop that reads or writes a collection (the
\* size test of line 106, the pop of lines 108-110) is taken while the loop
\* holds the lock, and a move of a worker is taken while that worker holds it
C34_CollectionsUnderLock ==
    [][/\ (dpc \in {"check", "pop"} /\ dpc' # dpc) => queue_lock.by = "loop"
       /\ \A r \in Live :
               (StepOf(r) /\ r.pc \in {"move_completed", "move_error"}) =>
                   HeldBy(r)]_vars

\* C39: when a refresh ends, the count shown in the status bar is the number
\* of 'processing' rows that the same refresh rendered
C39_CountMatchesRows ==
    [][(upc = "count" /\ upc' = "idle") =>
            active_count' = Cardinality(processing_rows(view'))]_vars

\* C40: cancel_download and cancel_process raise no error, and when
\* MediaProcessor.cleanup has returned no process that was registered at its
\* start is left in either table
C40_CleanupEmptiesTables ==
    /\ ~shutdown.raised
    /\ shutdown.pc = "done" =>
            \A w \in Wrappers :
                active_processes[w] \cap shutdown.at_start[w] = {}

\* C38: while the loop runs and the job has not been cleared away, every
\* submitted job comes to rest, with status 'completed' in the completed
\* history or with status 'error' in the error history, and once it rests
\* there it stays there (the runs of the model end when the threads of the
\* run are used up)
C38_EveryJobSettles ==
    \A j \in Jobs :
        /\ (j \in Submitted) ~>
                \/ Settled(j)
                \/ ~running
                \/ j \in discarded
                \/ SumOver(started, Jobs) >= limits.units
        /\ [](Settled(j) => [](Settled(j) \/ ~running \/ j \in discarded))

====
